---------------------------- MODULE Spec2Model ----------------------------
(***************************************************************************)
(* CerebellOPM stimulation paradigm: the block/sequence design generator   *)
(* (Experiment.setup_experiment) and the trigger scheduler / session       *)
(* controller (Experiment.run, get_resting_state, raise_and_lower_trigger) *)
(* of src/paradigm/experiment.py, with the pool arithmetic of              *)
(* src/paradigm/experiment_python2.py under Python 2, and the earlier      *)
(* version of the program, src/experiment.py (the actions named ...Legacy). *)
(*                                                                         *)
(* Time is counted in ticks of half a second of the monotonic clock        *)
(* (time.perf_counter), so that time.sleep(0.5) is one tick and            *)
(* time.sleep(1) is two.                                                   *)
(***************************************************************************)
EXTENDS Integers, Sequences, FiniteSets, TLC

VARIABLES
    cfg,                    \* the constructor's arguments (self.ISIs, ...)
    pc,                     \* position of the single flow of control
    outlet,                 \* TRUE once the LSL StreamOutlet exists
    output_dir,             \* TRUE once the directory of the log file exists
    event_counts,           \* what count_event_types returned, once it was called
    blocks,                 \* the block list (setup_experiment's local, then self.blocks)
    stim_i,                 \* index into ["tibial", "median"] of the outer loop
    isi_i,                  \* index of the `for ISI in self.ISIs` loop
    blk_i,                  \* counter of the `for _ in range(self.n_blocks)` loop
    seq_i,                  \* counter of the `for _ in range(self.n_sequences)` loop
    omission_positions_tmp, \* the shrinking per-nerve pool
    block_structure,        \* the block being filled
    now,                    \* monotonic clock
    experiment_start,       \* run's local experiment_start
    idx,                    \* enumerate index of the block loop (0-based)
    ev,                     \* index of the current event in block["events"] (1-based)
    timestamp,              \* run's local timestamp
    timer_end,              \* deadline of self.countdown_timer
    trigger,                \* raise_and_lower_trigger's argument
    ret,                    \* where raise_and_lower_trigger returns to
    rests,                  \* completed calls of get_resting_state
    io,                     \* every external effect so far, in order
    log_buffer,             \* records written to log_file and not yet flushed
    log_disk,               \* records that reached the file
    log_open,               \* TRUE while the `with open(...)` block holds the file
    late                    \* clock delays spent so far (see MaxLate)

setup_vars == <<blocks, stim_i, isi_i, blk_i, seq_i, omission_positions_tmp, block_structure>>
run_vars == <<now, experiment_start, idx, ev, timestamp, timer_end, trigger, ret, rests, io,
              log_buffer, log_disk, log_open, late>>
vars == <<cfg, pc, outlet, output_dir, event_counts, setup_vars, run_vars>>

-----------------------------------------------------------------------------
(* Bounds of the model *)

\* most draws from one nerve's pool (n_sequences * len(ISIs) * n_blocks)
MaxDraws == 3
\* most blocks of a generated plan
MaxPlanLen == 6
\* largest n_no_stim_blocks
MaxNoStim == 2
\* most events a plan may hold when it is run
MaxRunEvents == 6
\* most clock delays (operator taking time, a loop overshooting) in one session
MaxLate == 2
\* records the log file's write buffer holds before it spills to the file
LogBufferRecords == 2
\* what the monotonic clock reads when the program starts
ClockOrigin == 7

(* Program constants, in ticks *)
BreakPause == 1
PostInputSleep == 2

-----------------------------------------------------------------------------
(* Pure helpers *)

Nerves == <<"tibial", "median">>

RECURSIVE SumSeq(_)
SumSeq(s) == IF s = <<>> THEN 0 ELSE Head(s) + SumSeq(Tail(s))

RECURSIVE Repeat(_, _)
\* Python's  list * n
Repeat(s, n) == IF n <= 0 THEN <<>> ELSE s \o Repeat(s, n - 1)

\* Python's  list[:n]
Take(s, n) == SubSeq(s, 1, IF n < Len(s) THEN n ELSE Len(s))

\* a draw that leaves the list as it is (random.choice instead of pop)
ChoiceAt(s, i) == s

\* Python's  list.pop(i)  (1-based here): the list without its i-th element
RemoveAt(s, i) == SubSeq(s, 1, i - 1) \o SubSeq(s, i + 1, Len(s))

\* math.ceil(a / b) for positive b (true division, Python 3)
CeilDiv(a, b) == (a + b - 1) \div b

RECURSIVE Concat(_)
Concat(ss) == IF ss = <<>> THEN <<>> ELSE Head(ss) \o Concat(Tail(ss))

RECURSIVE Perms(_)
\* every ordering of the index set S, as sequences
Perms(S) == IF S = {} THEN {<<>>}
            ELSE UNION {{<<x>> \o p : p \in Perms(S \ {x})} : x \in S}

Count(s, x) == Cardinality({i \in 1..Len(s) : s[i] = x})

StimKey(stim) == IF stim = "tibial" THEN "stim_tibial" ELSE "stim_median"
OmisKey(stim) == IF stim = "tibial" THEN "omis_tibial" ELSE "omis_median"

-----------------------------------------------------------------------------
(* Configuration *)

\* the mapping of __main__ in paradigm/experiment.py
MainMapping ==
    [stim_tibial |-> 1, omis_tibial |-> 10, stim_median |-> 2, omis_median |-> 20,
     non_stim |-> 30, rest_start |-> 100, rest_end |-> 110]

\* the keys of the mapping, in the order of the dict literal
MappingKeys ==
    <<"stim_tibial", "omis_tibial", "stim_median", "omis_median", "non_stim",
      "rest_start", "rest_end">>

\* the bit-flag mapping of __main__ in paradigm/experiment_python2.py:
\* tibial 1, OPM system 2, median 4, omission 8, non-stim 16, rest 32,
\* tibial stimulator 64, median stimulator 128
BitMapping ==
    [stim_tibial |-> 1 + 64 + 2, omis_tibial |-> 1 + 8 + 2, stim_median |-> 4 + 128 + 2,
     omis_median |-> 4 + 8 + 2, non_stim |-> 16 + 2, rest_start |-> 32 + 2,
     rest_end |-> 32 + 2]

\* a bit-flag mapping that raises only the stimulator's pin and the OPM pin for
\* a stimulation of either nerve
SharedStimMapping ==
    [stim_tibial |-> 64 + 2, omis_tibial |-> 1 + 8 + 2, stim_median |-> 64 + 2,
     omis_median |-> 4 + 8 + 2, non_stim |-> 16 + 2, rest_start |-> 32 + 2,
     rest_end |-> 32 + 2]

NDraws(c) == c.n_sequences * Len(c.ISIs) * c.n_blocks

AllConfigs ==
    [ISIs : {<<2>>, <<3>>, <<2, 3>>},
     n_sequences : 1..MaxDraws,
     n_blocks : {1, 2},
     n_no_stim_blocks : 0..MaxNoStim,
     omission_positions : {<<3>>, <<2, 3>>, <<4, 2, 3>>},
     blocks_between_breaks : {1, 2, 3},
     rest_duration : {1},
     trigger_duration : {1, 4},
     trigger_lsl : BOOLEAN,
     trigger_mapping : {MainMapping},
     python2 : {FALSE}]

-----------------------------------------------------------------------------
(* setup_experiment *)

\* the factor of line 80: ceil(k / m) with Python 3's true division; in
\* experiment_python2.py run by Python 2, int(ceil(k / m)) with k / m already
\* floored by the integer division
PoolRepeats(c) ==
    IF c.python2 THEN NDraws(c) \div Len(c.omission_positions)
    ELSE CeilDiv(NDraws(c), Len(c.omission_positions))

\* lines 80-81: the configured positions repeated that many times, cut to k
OmissionPool(c) ==
    Take(Repeat(c.omission_positions, PoolRepeats(c)),
         Len(c.ISIs) * c.n_blocks * c.n_sequences)

\* omission_pos stimulations before the omission (n_stimulations off by one)
SequenceEventsOffByOne(tm, stim, omission_pos) ==
    Repeat(<<tm[StimKey(stim)]>>, omission_pos) \o <<tm[OmisKey(stim)]>>

\* lines 89-93: omission_pos - 1 stimulations followed by one omission
SequenceEvents(tm, stim, omission_pos) ==
    Repeat(<<tm[StimKey(stim)]>>, omission_pos - 1) \o <<tm[OmisKey(stim)]>>

\* the mean rounded up
MeanOmissionsRoundedUp(c) == CeilDiv(SumSeq(c.omission_positions), Len(c.omission_positions))

\* line 98: int(sum / len)
MeanOmissions(c) == SumSeq(c.omission_positions) \div Len(c.omission_positions)

\* lines 100-103: one non-stimulation block of the given ISI
NonStimBlock(c, ISI) ==
    [ISI |-> ISI, nerve |-> "None",
     events |-> Repeat(Repeat(<<c.trigger_mapping["non_stim"]>>, MeanOmissions(c)),
                       c.n_no_stim_blocks * c.n_sequences)]

\* lines 99-104: the non-stimulation blocks appended to the list
NonStimBlocks(c) == [i \in 1..Len(c.ISIs) |-> NonStimBlock(c, c.ISIs[i])]

EmptyBlock(c, i, s) == [ISI |-> c.ISIs[i], nerve |-> Nerves[s], events |-> <<>>]

NoBlock == [ISI |-> 0, nerve |-> "None", events |-> <<>>]

\* lines 84-95 when n_sequences <= 0: range(n_sequences) is empty, every block of
\* the nerve is appended without events
EventlessBlocks(c, s) ==
    Concat([i \in 1..Len(c.ISIs) |-> Repeat(<<EmptyBlock(c, i, s)>>, c.n_blocks)])

\* event_counts before count_event_types is called
NotCounted == [called |-> FALSE]

\* a record of the file an earlier session left at the log's path
StaleRow ==
    [kind |-> "stale", timestamp |-> 0, block |-> 0, ISI |-> 0, nerve |-> "nerve", trigger |-> 0]


-----------------------------------------------------------------------------
(* Initial states *)

PlanLen(c) == Len(c.ISIs) * (2 * c.n_blocks + 1)

\* events of the plan of c, whatever the random source does
PlanEvents(c) ==
    2 * (SumSeq(OmissionPool(c))) + Len(c.ISIs) * c.n_no_stim_blocks * c.n_sequences * MeanOmissions(c)

\* plans of up to MaxPlanLen blocks and MaxDraws draws per nerve; a plan of two
\* ISIs has one sequence per block
GenConfigs ==
    {c \in AllConfigs : /\ NDraws(c) <= MaxDraws
                        /\ PlanLen(c) <= MaxPlanLen
                        /\ Len(c.ISIs) = 1 \/ c.n_sequences = 1
                        /\ c.blocks_between_breaks = 3
                        /\ c.trigger_duration = 1
                        /\ ~c.trigger_lsl}

InitWith(configs, spent) ==
    /\ cfg \in configs
    /\ pc = "init"
    /\ outlet = FALSE
    /\ output_dir = FALSE
    /\ event_counts = NotCounted
    /\ blocks = <<>>
    /\ stim_i = 1
    /\ isi_i = 1
    /\ blk_i = 1
    /\ seq_i = 1
    /\ omission_positions_tmp = <<>>
    /\ block_structure = NoBlock
    /\ now = ClockOrigin
    /\ experiment_start = 0
    /\ idx = 0
    /\ ev = 1
    /\ timestamp = 0
    /\ timer_end = 0
    /\ trigger = 0
    /\ ret = "none"
    /\ rests = 0
    /\ io = <<>>
    /\ log_buffer = <<>>
    /\ log_disk = <<StaleRow>>
    /\ log_open = FALSE
    /\ late = spent

InitGen == InitWith(GenConfigs, 0)

\* what the constructor may be handed: arguments no check refuses (no ISI, no
\* omission position, position 1, no sequence, no block), either sink, the
\* mappings above, and either interpreter for the pool arithmetic
ConstructConfigs ==
    [ISIs : {<<>>, <<2>>},
     n_sequences : 0..MaxDraws,
     n_blocks : {0, 1},
     n_no_stim_blocks : {0, 1},
     omission_positions : {<<>>, <<1>>, <<3>>, <<2, 3>>},
     blocks_between_breaks : {3},
     rest_duration : {1},
     trigger_duration : {1},
     trigger_lsl : BOOLEAN,
     trigger_mapping : {MainMapping, BitMapping, SharedStimMapping},
     python2 : BOOLEAN]

InitConstruct == InitWith(ConstructConfigs, 0)

-----------------------------------------------------------------------------
(* __init__ and setup_experiment *)

\* __init__, lines 36-55: store the arguments, create the outlet in LSL mode
Construct ==
    /\ pc = "init"
    /\ outlet' = cfg.trigger_lsl
    /\ pc' = "setup_nerve"
    /\ UNCHANGED <<cfg, output_dir, event_counts, setup_vars, run_vars>>

\* lines 77-86: top of `for stim in ["tibial", "median"]`, the pool is rebuilt
\* (ZeroDivisionError when omission_positions is empty), and the loops below it
\* are entered; when one of them has no iteration the nerve is over at once,
\* with no block (no ISI, or range(n_blocks) empty) or with eventless blocks
\* (range(n_sequences) empty)
BeginNerve ==
    /\ pc = "setup_nerve"
    /\ stim_i <= Len(Nerves)
    /\ IF Len(cfg.omission_positions) = 0
       THEN /\ pc' = "crashed"
            /\ UNCHANGED setup_vars
       ELSE /\ omission_positions_tmp' = OmissionPool(cfg)
            /\ isi_i' = 1
            /\ blk_i' = 1
            /\ seq_i' = 1
            /\ IF Len(cfg.ISIs) = 0 \/ cfg.n_blocks <= 0 \/ cfg.n_sequences <= 0
               THEN /\ blocks' = IF Len(cfg.ISIs) = 0 \/ cfg.n_blocks <= 0 THEN blocks
                                  ELSE blocks \o EventlessBlocks(cfg, stim_i)
                    /\ stim_i' = stim_i + 1
                    /\ pc' = IF stim_i < Len(Nerves) THEN "setup_nerve" ELSE "setup_nonstim"
                    /\ UNCHANGED block_structure
               ELSE /\ block_structure' = EmptyBlock(cfg, 1, stim_i)
                    /\ pc' = "setup_draw"
                    /\ UNCHANGED <<blocks, stim_i>>
    /\ UNCHANGED <<cfg, outlet, output_dir, event_counts, run_vars>>

\* lines 87-95: one pass of `for _ in range(self.n_sequences)`, with the loop
\* bookkeeping that follows it (append the block, next block / ISI / nerve)
DrawSequence ==
    /\ pc = "setup_draw"
    /\ IF omission_positions_tmp = <<>>
       THEN \* random.randrange(0) raises ValueError
            /\ pc' = "crashed"
            /\ UNCHANGED <<setup_vars>>
       ELSE \E r \in 1..Len(omission_positions_tmp) :
            LET omission_pos == omission_positions_tmp[r]
                filled == [block_structure EXCEPT
                             !.events = @ \o SequenceEvents(cfg.trigger_mapping,
                                                           Nerves[stim_i], omission_pos)]
            IN  /\ omission_positions_tmp' = RemoveAt(omission_positions_tmp, r)
                /\ IF seq_i < cfg.n_sequences
                   THEN /\ seq_i' = seq_i + 1
                        /\ block_structure' = filled
                        /\ pc' = "setup_draw"
                        /\ UNCHANGED <<blocks, blk_i, isi_i, stim_i>>
                   ELSE /\ blocks' = Append(blocks, filled)
                        /\ seq_i' = 1
                        /\ IF blk_i < cfg.n_blocks
                           THEN /\ blk_i' = blk_i + 1
                                /\ block_structure' = EmptyBlock(cfg, isi_i, stim_i)
                                /\ pc' = "setup_draw"
                                /\ UNCHANGED <<isi_i, stim_i>>
                           ELSE /\ blk_i' = 1
                                /\ IF isi_i < Len(cfg.ISIs)
                                   THEN /\ isi_i' = isi_i + 1
                                        /\ block_structure' = EmptyBlock(cfg, isi_i + 1, stim_i)
                                        /\ pc' = "setup_draw"
                                        /\ UNCHANGED stim_i
                                   ELSE /\ isi_i' = 1
                                        /\ stim_i' = stim_i + 1
                                        /\ block_structure' = filled
                                        /\ pc' = IF stim_i < Len(Nerves)
                                                 THEN "setup_nerve" ELSE "setup_nonstim"
    /\ UNCHANGED <<cfg, outlet, output_dir, event_counts, run_vars>>

\* lines 97-104: the non-stimulation blocks, one per ISI
AppendNonStim ==
    /\ pc = "setup_nonstim"
    /\ blocks' = blocks \o NonStimBlocks(cfg)
    /\ block_structure' = IF cfg.ISIs = <<>> THEN block_structure
                          ELSE NonStimBlocks(cfg)[Len(cfg.ISIs)]
    /\ pc' = "setup_shuffle"
    /\ UNCHANGED <<cfg, outlet, output_dir, event_counts, stim_i, isi_i, blk_i, seq_i, omission_positions_tmp, run_vars>>

\* a shuffle that samples with replacement: the last place gets a copy of the
\* block of the first place
ShuffleBlocksResampling ==
    /\ pc = "setup_shuffle"
    /\ \E p \in Perms(1..Len(blocks)) :
          blocks' = [i \in 1..Len(blocks) |->
                       IF i = Len(blocks) THEN blocks[p[1]] ELSE blocks[p[i]]]
    /\ output_dir' = TRUE
    /\ pc' = "constructed"
    /\ UNCHANGED <<cfg, outlet, event_counts, stim_i, isi_i, blk_i, seq_i, omission_positions_tmp,
                   block_structure, run_vars>>

\* lines 106-107 and 57-64: random.shuffle(blocks), return; __init__ makes the
\* directory of the log file and finishes
ShuffleBlocks ==
    /\ pc = "setup_shuffle"
    /\ \E p \in Perms(1..Len(blocks)) :
          blocks' = [i \in 1..Len(blocks) |-> blocks[p[i]]]
    /\ output_dir' = TRUE
    /\ pc' = "constructed"
    /\ UNCHANGED <<cfg, outlet, event_counts, stim_i, isi_i, blk_i, seq_i, omission_positions_tmp,
                   block_structure, run_vars>>

\* line 173: {v: k for k, v in trigger_mapping.items()}; of the keys that carry
\* the code, the last one of the dict stays
TriggerToEvent(tm, code) ==
    LET keys == {i \in 1..Len(MappingKeys) : tm[MappingKeys[i]] = code}
    IN  IF keys = {} THEN "unknown_event"
        ELSE MappingKeys[CHOOSE i \in keys : \A j \in keys : j <= i]

\* lines 170-182: the Counter over the names of all events of all blocks, as a dict
EventCounter(plan, tm) ==
    LET events == Concat([i \in 1..Len(plan) |-> plan[i].events])
        names == [i \in 1..Len(events) |-> TriggerToEvent(tm, events[i])]
    IN  [name \in {names[i] : i \in 1..Len(names)} |-> Count(names, name)]

\* count_event_types, called by __main__ on the constructed experiment
CountEventTypes ==
    /\ pc = "constructed"
    /\ event_counts = NotCounted
    /\ event_counts' = [called |-> TRUE, counts |-> EventCounter(blocks, cfg.trigger_mapping)]
    /\ UNCHANGED <<cfg, pc, outlet, output_dir, setup_vars, run_vars>>

NextGen ==
    \/ Construct
    \/ BeginNerve
    \/ DrawSequence
    \/ AppendNonStim
    \/ ShuffleBlocks

SpecGen == InitGen /\ [][NextGen]_vars

NextConstruct ==
    \/ Construct
    \/ BeginNerve
    \/ DrawSequence
    \/ AppendNonStim
    \/ ShuffleBlocks
    \/ CountEventTypes

SpecConstruct == InitConstruct /\ [][NextConstruct]_vars


-----------------------------------------------------------------------------
(* The environment of run: the clock, the operator, the log file *)

\* ticks the operator may take to answer the check-in prompt, or by which the ISI
\* loop may overshoot its deadline, at this point (the rest prompts are answered
\* at once and the countdown of the trigger hold ends on time: a delay there only
\* shifts what follows)
LateChoices == IF late < MaxLate THEN {0, 1} ELSE {0}

Max(a, b) == IF a >= b THEN a ELSE b

HeaderRow ==
    [kind |-> "header", timestamp |-> 0, block |-> 0, ISI |-> 0, nerve |-> "nerve", trigger |-> 0]

\* a row whose block and trigger fields are swapped
LogRowSwapped(ts, block_no, ISI, nerve, event) ==
    [kind |-> "row", timestamp |-> ts, block |-> event, ISI |-> ISI, nerve |-> nerve,
     trigger |-> block_no]

\* line 202: the row of one event
LogRow(ts, block_no, ISI, nerve, event) ==
    [kind |-> "row", timestamp |-> ts, block |-> block_no, ISI |-> ISI, nerve |-> nerve,
     trigger |-> event]

\* log_file.write(row) on the file object of open(path, 'w'): the row goes to the
\* object's buffer, which spills to the file only when it is full.  log_disk is
\* therefore what the file holds if the process is killed at that point.
LogWrite(file, row) ==
    IF Len(file.buffer) + 1 > LogBufferRecords
    THEN [buffer |-> <<row>>, disk |-> file.disk \o file.buffer]
    ELSE [buffer |-> Append(file.buffer, row), disk |-> file.disk]

LogFile == [buffer |-> log_buffer, disk |-> log_disk]

\* everything written to the log so far, flushed or not
LogWritten == log_disk \o log_buffer

SinkWrite(value, t, ctx) == [op |-> "write", value |-> value, t |-> t, ctx |-> ctx]
StreamPush(value, t, ctx) == [op |-> "push", value |-> value, t |-> t, ctx |-> ctx]
SinkFault(value, t, ctx) == [op |-> "fail", value |-> value, t |-> t, ctx |-> ctx]
OperatorInput(prompt, t) == [op |-> "input", value |-> 0, t |-> t, ctx |-> prompt]

-----------------------------------------------------------------------------
(* run *)

\* calculate_duration, line 157: the breaks the estimate charges
NBreaks(c) ==
    (Len(c.ISIs) * (c.n_blocks * 2 + c.n_no_stim_blocks)) \div c.blocks_between_breaks

\* line 199: the e-th event of the block at enumerate index i
BlockEvent(plan, i, e) == plan[i + 1].events[e]

\* the break test on the number of blocks already run
BreakDueAfter(i, blocks_between_breaks) == i >= 1 /\ i % blocks_between_breaks = 0

\* line 195: the break test of the block at enumerate index i
BreakDue(i, blocks_between_breaks) == (i + 1) % blocks_between_breaks = 0

\* the deadline without the ISI
TargetTimeNoISI(ts, ISI, start) == ts + start

\* the deadline counted from the end of the emission
TargetTimeFromNow(ts, ISI, start) == now + ISI

\* line 203, as the loop of line 204 compares it with perf_counter()
TargetTime(ts, ISI, start) == ts + ISI + start

\* line 200
Timestamp(clock, start) == clock - start

\* the log opened in 'a' mode: what the file held stays
OpenLogAppend ==
    /\ pc = "constructed"
    /\ log_open' = TRUE
    /\ LET f == LogWrite([buffer |-> <<>>, disk |-> log_disk], HeaderRow)
       IN  /\ log_buffer' = f.buffer
           /\ log_disk' = f.disk
    /\ experiment_start' = now
    /\ pc' = "begin_rest"
    /\ UNCHANGED <<cfg, outlet, output_dir, event_counts, setup_vars, now, idx, ev, timestamp, timer_end, trigger,
                   ret, rests, io, late>>

\* lines 186-189: open the log in 'w' mode (the file is emptied), write the
\* header, read the clock
OpenLog ==
    /\ pc = "constructed"
    /\ log_open' = TRUE
    /\ LET f == LogWrite([buffer |-> <<>>, disk |-> <<>>], HeaderRow)
       IN  /\ log_buffer' = f.buffer
           /\ log_disk' = f.disk
    /\ experiment_start' = now
    /\ pc' = "begin_rest"
    /\ UNCHANGED <<cfg, outlet, output_dir, event_counts, setup_vars, now, idx, ev, timestamp, timer_end, trigger,
                   ret, rests, io, late>>

\* lines 125-126 and 132-135: _begin_rest (operator confirms, sleep(1)), then the
\* call of raise_and_lower_trigger(rest_start)
BeginRest ==
    /\ pc = "begin_rest"
    /\ io' = Append(io, OperatorInput("begin_rest", now))
    /\ now' = now + PostInputSleep
    /\ trigger' = cfg.trigger_mapping["rest_start"]
    /\ ret' = "rest_sleep"
    /\ pc' = "raise"
    /\ UNCHANGED <<cfg, outlet, output_dir, event_counts, setup_vars, experiment_start, idx, ev, timestamp, timer_end,
                   rests, log_buffer, log_disk, log_open, late>>

\* a push to the stream followed by the hold and the deassert of the port
RaiseTriggerPushAndHold ==
    /\ pc = "raise"
    /\ io' = Append(io, IF cfg.trigger_lsl THEN StreamPush(trigger, now, ret)
                        ELSE SinkWrite(trigger, now, ret))
    /\ timer_end' = now + cfg.trigger_duration
    /\ pc' = "hold"
    /\ UNCHANGED <<cfg, outlet, output_dir, event_counts, setup_vars, now, experiment_start, idx, ev, timestamp,
                   trigger, ret, rests, log_buffer, log_disk, log_open, late>>

\* lines 110-116: push to the stream, or write the code to the port and start
\* the countdown
RaiseTrigger ==
    /\ pc = "raise"
    /\ IF cfg.trigger_lsl
       THEN /\ io' = Append(io, StreamPush(trigger, now, ret))
            /\ pc' = ret
            /\ UNCHANGED timer_end
       ELSE /\ io' = Append(io, SinkWrite(trigger, now, ret))
            /\ timer_end' = now + cfg.trigger_duration
            /\ pc' = "hold"
    /\ UNCHANGED <<cfg, outlet, output_dir, event_counts, setup_vars, now, experiment_start, idx, ev, timestamp,
                   trigger, ret, rests, log_buffer, log_disk, log_open, late>>

\* raise_and_lower_trigger returning without the write of 0
LowerTriggerNoDeassert ==
    /\ pc = "hold"
    /\ now' = Max(now, timer_end)
    /\ pc' = ret
    /\ UNCHANGED <<cfg, outlet, output_dir, event_counts, setup_vars, experiment_start, idx, ev, timestamp, timer_end,
                   trigger, ret, rests, io, log_buffer, log_disk, log_open, late>>

\* a countdown that never reaches 0: the loop of line 118 goes on
LowerTriggerSpinning ==
    /\ pc = "hold"
    /\ UNCHANGED vars

\* lines 118-121: spin until the countdown is over, then write 0
LowerTrigger ==
    /\ pc = "hold"
    /\ now' = Max(now, timer_end)
    /\ io' = Append(io, SinkWrite(0, Max(now, timer_end), ret))
    /\ pc' = ret
    /\ UNCHANGED <<cfg, outlet, output_dir, event_counts, setup_vars, experiment_start, idx, ev, timestamp, timer_end,
                   trigger, ret, rests, log_buffer, log_disk, log_open, late>>

\* the sink failing with the file closed as it is, its buffer dropped
SinkFailureNoFlush ==
    /\ pc \in {"raise", "hold"}
    /\ now' = IF pc = "hold" THEN Max(now, timer_end) ELSE now
    /\ io' = Append(io, SinkFault(IF pc = "raise" THEN trigger ELSE 0, now', ret))
    /\ log_buffer' = <<>>
    /\ log_open' = FALSE
    /\ pc' = "failed"
    /\ UNCHANGED <<cfg, outlet, output_dir, event_counts, setup_vars, experiment_start, idx, ev,
                   timestamp, timer_end, trigger, ret, rests, log_disk, late>>

\* lines 111, 114, 121 raising: push_sample or setParallelData fails; nothing in
\* raise_and_lower_trigger, get_resting_state or run catches the exception, it
\* leaves the `with` block of line 186, which flushes and closes the file, and run
SinkFailure ==
    /\ pc \in {"raise", "hold"}
    /\ now' = IF pc = "hold" THEN Max(now, timer_end) ELSE now
    /\ io' = Append(io, SinkFault(IF pc = "raise" THEN trigger ELSE 0, now', ret))
    /\ log_disk' = log_disk \o log_buffer
    /\ log_buffer' = <<>>
    /\ log_open' = FALSE
    /\ pc' = "failed"
    /\ UNCHANGED <<cfg, outlet, output_dir, event_counts, setup_vars, experiment_start, idx, ev,
                   timestamp, timer_end, trigger, ret, rests, late>>

\* lines 128-129: sleep(rest_duration), then the call of
\* raise_and_lower_trigger(rest_end)
RestSleep ==
    /\ pc = "rest_sleep"
    /\ now' = now + cfg.rest_duration
    /\ trigger' = cfg.trigger_mapping["rest_end"]
    /\ ret' = "end_rest"
    /\ pc' = "raise"
    /\ UNCHANGED <<cfg, outlet, output_dir, event_counts, setup_vars, experiment_start, idx, ev, timestamp, timer_end,
                   rests, io, log_buffer, log_disk, log_open, late>>

\* get_resting_state returning after rest_end without asking the operator
EndRestUnconfirmed ==
    /\ pc = "end_rest"
    /\ now' = now + PostInputSleep
    /\ rests' = rests + 1
    /\ pc' = IF rests = 0 THEN "block_head" ELSE "close"
    /\ UNCHANGED <<cfg, outlet, output_dir, event_counts, setup_vars, experiment_start, idx, ev, timestamp, timer_end,
                   trigger, ret, io, log_buffer, log_disk, log_open, late>>

\* lines 130 and 137-140: _end_rest (operator confirms, sleep(1)); control goes to
\* the block loop after the first rest and to the end of run after the second
EndRest ==
    /\ pc = "end_rest"
    /\ io' = Append(io, OperatorInput("end_rest", now))
    /\ now' = now + PostInputSleep
    /\ rests' = rests + 1
    /\ pc' = IF rests = 0 THEN "block_head" ELSE "close"
    /\ UNCHANGED <<cfg, outlet, output_dir, event_counts, setup_vars, experiment_start, idx, ev, timestamp, timer_end,
                   trigger, ret, log_buffer, log_disk, log_open, late>>

\* lines 195-197 and 210-213: sleep(0.5), the operator checks in, sleep(1)
CheckIn ==
    /\ pc = "block_head"
    /\ idx < Len(blocks)
    /\ BreakDue(idx, cfg.blocks_between_breaks)
    /\ \E d \in LateChoices :
         /\ late' = late + d
         /\ io' = Append(io, OperatorInput("check_in", now + BreakPause + d))
         /\ now' = now + BreakPause + d + PostInputSleep
    /\ pc' = "block_body"
    /\ UNCHANGED <<cfg, outlet, output_dir, event_counts, setup_vars, experiment_start, idx, ev, timestamp, timer_end,
                   trigger, ret, rests, log_buffer, log_disk, log_open>>

\* lines 192-199: enter the event loop of block idx (no break is due, or it is
\* over); a block without events is passed over
StartBlock ==
    /\ \/ pc = "block_body"
       \/ /\ pc = "block_head"
          /\ idx < Len(blocks)
          /\ ~BreakDue(idx, cfg.blocks_between_breaks)
    /\ IF blocks[idx + 1].events = <<>>
       THEN /\ idx' = idx + 1
            /\ pc' = "block_head"
            /\ UNCHANGED ev
       ELSE /\ ev' = 1
            /\ pc' = "event"
            /\ UNCHANGED idx
    /\ UNCHANGED <<cfg, outlet, output_dir, event_counts, setup_vars, now, experiment_start, timestamp, timer_end,
                   trigger, ret, rests, io, log_buffer, log_disk, log_open, late>>

\* lines 200-201: read the clock, call raise_and_lower_trigger(event)
EmitEvent ==
    /\ pc = "event"
    /\ timestamp' = Timestamp(now, experiment_start)
    /\ trigger' = BlockEvent(blocks, idx, ev)
    /\ ret' = "log"
    /\ pc' = "raise"
    /\ UNCHANGED <<cfg, outlet, output_dir, event_counts, setup_vars, now, experiment_start, idx, ev, timer_end,
                   rests, io, log_buffer, log_disk, log_open, late>>

\* line 202: write the event's row
LogEvent ==
    /\ pc = "log"
    /\ LET f == LogWrite(LogFile, LogRow(timestamp, idx + 1, blocks[idx + 1].ISI,
                                        blocks[idx + 1].nerve, trigger))
       IN  /\ log_buffer' = f.buffer
           /\ log_disk' = f.disk
    /\ pc' = "wait"
    /\ UNCHANGED <<cfg, outlet, output_dir, event_counts, setup_vars, now, experiment_start, idx, ev, timestamp,
                   timer_end, trigger, ret, rests, io, log_open, late>>

\* lines 203-205: spin until the clock reaches target_time, then go on with the
\* next event, or the next block
WaitISI ==
    /\ pc = "wait"
    /\ \E d \in LateChoices :
         /\ late' = late + d
         /\ now' = Max(now, TargetTime(timestamp, blocks[idx + 1].ISI, experiment_start)) + d
    /\ IF ev < Len(blocks[idx + 1].events)
       THEN /\ ev' = ev + 1
            /\ pc' = "event"
            /\ UNCHANGED idx
       ELSE /\ idx' = idx + 1
            /\ pc' = "block_head"
            /\ UNCHANGED ev
    /\ UNCHANGED <<cfg, outlet, output_dir, event_counts, setup_vars, experiment_start, timestamp, timer_end, trigger,
                   ret, rests, io, log_buffer, log_disk, log_open>>

\* run ending after the block loop, without the final rest
LeaveBlocksNoRest ==
    /\ pc = "block_head"
    /\ idx = Len(blocks)
    /\ pc' = "close"
    /\ UNCHANGED <<cfg, outlet, output_dir, event_counts, setup_vars, run_vars>>

\* line 207: the block loop is over, get_resting_state is called again
LeaveBlocks ==
    /\ pc = "block_head"
    /\ idx = Len(blocks)
    /\ pc' = "begin_rest"
    /\ UNCHANGED <<cfg, outlet, output_dir, event_counts, setup_vars, run_vars>>

\* line 208 and the end of the `with` block: the file is flushed and closed
CloseLog ==
    /\ pc = "close"
    /\ log_disk' = log_disk \o log_buffer
    /\ log_buffer' = <<>>
    /\ log_open' = FALSE
    /\ pc' = "done"
    /\ UNCHANGED <<cfg, outlet, output_dir, event_counts, setup_vars, now, experiment_start, idx, ev, timestamp,
                   timer_end, trigger, ret, rests, io, late>>

-----------------------------------------------------------------------------
(* The session: construction, then run *)

\* a plan of two ISIs, run by a punctual operator and clock
TwoISIConfig ==
    [ISIs |-> <<3, 2>>, n_sequences |-> 1, n_blocks |-> 1, n_no_stim_blocks |-> 0,
     omission_positions |-> <<2>>, blocks_between_breaks |-> 2, rest_duration |-> 1,
     trigger_duration |-> 1, trigger_lsl |-> FALSE, trigger_mapping |-> MainMapping,
     python2 |-> FALSE]

\* single-ISI plans of up to MaxRunEvents events; the streaming sink and the hold
\* longer than the ISI are run with a break every second block
RunConfigs ==
    {c \in AllConfigs : /\ Len(c.ISIs) = 1
                        /\ PlanEvents(c) <= MaxRunEvents
                        /\ NDraws(c) <= MaxDraws
                        /\ PlanLen(c) <= MaxPlanLen
                        /\ c.trigger_lsl => c.trigger_duration = 1
                        /\ (c.trigger_lsl \/ c.trigger_duration > 1) => c.blocks_between_breaks = 2}

\* single-ISI plans with up to MaxLate delays, and the two-ISI plan on time
Init ==
    \/ InitWith(RunConfigs, 0)
    \/ InitWith({TwoISIConfig}, MaxLate)

Next ==
    \/ Construct
    \/ BeginNerve
    \/ DrawSequence
    \/ AppendNonStim
    \/ ShuffleBlocks
    \/ OpenLog
    \/ BeginRest
    \/ RaiseTrigger
    \/ LowerTrigger
    \/ RestSleep
    \/ EndRest
    \/ CheckIn
    \/ StartBlock
    \/ EmitEvent
    \/ LogEvent
    \/ WaitISI
    \/ LeaveBlocks
    \/ CloseLog

Spec == Init /\ [][Next]_vars

\* the single-ISI plans with a break every second block and one delay of the
\* operator or the clock, and the two-ISI plan on time
InitLive ==
    \/ InitWith({c \in RunConfigs : c.blocks_between_breaks = 2}, MaxLate - 1)
    \/ InitWith({TwoISIConfig}, MaxLate)

\* the session with its single flow of control going on: the operator answers
\* every prompt, the clock advances through every sleep and busy-wait, the sink
\* accepts every write
SpecLive == InitLive /\ [][Next]_vars /\ WF_vars(Next)

-----------------------------------------------------------------------------
(* src/experiment.py: the earlier setup_experiment, get_resting_state and run *)

\* src/experiment.py lines 53-56: top of `for stim in ["tibial", "median"]`;
\* there is no pool, the loops below are entered (or have no iteration)
BeginNerveLegacy ==
    /\ pc = "setup_nerve"
    /\ stim_i <= Len(Nerves)
    /\ isi_i' = 1
    /\ blk_i' = 1
    /\ seq_i' = 1
    /\ IF Len(cfg.ISIs) = 0 \/ cfg.n_blocks <= 0 \/ cfg.n_sequences <= 0
       THEN /\ blocks' = IF Len(cfg.ISIs) = 0 \/ cfg.n_blocks <= 0 THEN blocks
                          ELSE blocks \o EventlessBlocks(cfg, stim_i)
            /\ stim_i' = stim_i + 1
            /\ pc' = IF stim_i < Len(Nerves) THEN "setup_nerve" ELSE "setup_nonstim"
            /\ UNCHANGED block_structure
       ELSE /\ block_structure' = EmptyBlock(cfg, 1, stim_i)
            /\ pc' = "setup_draw"
            /\ UNCHANGED <<blocks, stim_i>>
    /\ UNCHANGED <<cfg, outlet, output_dir, event_counts, omission_positions_tmp, run_vars>>

\* src/experiment.py lines 57-65: one pass of `for _ in range(self.n_sequences)`:
\* omission_idx = random.choice(self.omission_positions), the stimulations and
\* the omission, with the loop bookkeeping that follows
ChooseSequenceLegacy ==
    /\ pc = "setup_draw"
    /\ IF cfg.omission_positions = <<>>
       THEN \* random.choice([]) raises IndexError
            /\ pc' = "crashed"
            /\ UNCHANGED <<setup_vars>>
       ELSE \E r \in 1..Len(cfg.omission_positions) :
            LET omission_idx == cfg.omission_positions[r]
                filled == [block_structure EXCEPT
                             !.events = @ \o SequenceEvents(cfg.trigger_mapping,
                                                           Nerves[stim_i], omission_idx)]
            IN  /\ UNCHANGED omission_positions_tmp
                /\ IF seq_i < cfg.n_sequences
                   THEN /\ seq_i' = seq_i + 1
                        /\ block_structure' = filled
                        /\ pc' = "setup_draw"
                        /\ UNCHANGED <<blocks, blk_i, isi_i, stim_i>>
                   ELSE /\ blocks' = Append(blocks, filled)
                        /\ seq_i' = 1
                        /\ IF blk_i < cfg.n_blocks
                           THEN /\ blk_i' = blk_i + 1
                                /\ block_structure' = EmptyBlock(cfg, isi_i, stim_i)
                                /\ pc' = "setup_draw"
                                /\ UNCHANGED <<isi_i, stim_i>>
                           ELSE /\ blk_i' = 1
                                /\ IF isi_i < Len(cfg.ISIs)
                                   THEN /\ isi_i' = isi_i + 1
                                        /\ block_structure' = EmptyBlock(cfg, isi_i + 1, stim_i)
                                        /\ pc' = "setup_draw"
                                        /\ UNCHANGED stim_i
                                   ELSE /\ isi_i' = 1
                                        /\ stim_i' = stim_i + 1
                                        /\ block_structure' = filled
                                        /\ pc' = IF stim_i < Len(Nerves)
                                                 THEN "setup_nerve" ELSE "setup_nonstim"
    /\ UNCHANGED <<cfg, outlet, output_dir, event_counts, run_vars>>

\* src/experiment.py lines 81-82: _begin_rest (operator confirms, sleep(1)), then
\* setParallelData(rest_start)
BeginRestLegacy ==
    /\ pc = "begin_rest"
    /\ io' = io \o <<OperatorInput("begin_rest", now),
                      SinkWrite(cfg.trigger_mapping["rest_start"], now + PostInputSleep,
                                "rest_sleep")>>
    /\ now' = now + PostInputSleep
    /\ trigger' = cfg.trigger_mapping["rest_start"]
    /\ ret' = "rest_sleep"
    /\ pc' = "rest_sleep"
    /\ UNCHANGED <<cfg, outlet, output_dir, event_counts, setup_vars, experiment_start, idx, ev,
                   timestamp, timer_end, rests, log_buffer, log_disk, log_open, late>>

\* src/experiment.py lines 83-84: sleep(rest_duration), setParallelData(rest_end)
RestSleepLegacy ==
    /\ pc = "rest_sleep"
    /\ now' = now + cfg.rest_duration
    /\ io' = Append(io, SinkWrite(cfg.trigger_mapping["rest_end"], now + cfg.rest_duration,
                                  "end_rest"))
    /\ trigger' = cfg.trigger_mapping["rest_end"]
    /\ ret' = "end_rest"
    /\ pc' = "end_rest"
    /\ UNCHANGED <<cfg, outlet, output_dir, event_counts, setup_vars, experiment_start, idx, ev,
                   timestamp, timer_end, rests, log_buffer, log_disk, log_open, late>>

\* src/experiment.py lines 155-156: setParallelData(event), then the clock is read
EmitEventLegacy ==
    /\ pc = "event"
    /\ io' = Append(io, SinkWrite(BlockEvent(blocks, idx, ev), now, "log"))
    /\ timestamp' = Timestamp(now, experiment_start)
    /\ trigger' = BlockEvent(blocks, idx, ev)
    /\ ret' = "log"
    /\ pc' = "log"
    /\ UNCHANGED <<cfg, outlet, output_dir, event_counts, setup_vars, now, experiment_start, idx, ev,
                   timer_end, rests, log_buffer, log_disk, log_open, late>>

\* one ISI, one block per nerve of one or two sequences, one or two omission
\* positions, the port as the sink
LegacyConfigs ==
    {c \in AllConfigs : /\ Len(c.ISIs) = 1
                        /\ c.n_blocks = 1
                        /\ c.n_sequences <= 2
                        /\ c.n_no_stim_blocks <= 1
                        /\ Len(c.omission_positions) <= 2
                        /\ c.blocks_between_breaks = 2
                        /\ c.trigger_duration = 1
                        /\ ~c.trigger_lsl}

\* the earlier program run on time
InitLegacy == InitWith(LegacyConfigs, MaxLate)

NextLegacy ==
    \/ Construct
    \/ BeginNerveLegacy
    \/ ChooseSequenceLegacy
    \/ AppendNonStim
    \/ ShuffleBlocks
    \/ OpenLog
    \/ BeginRestLegacy
    \/ RestSleepLegacy
    \/ EndRest
    \/ CheckIn
    \/ StartBlock
    \/ EmitEventLegacy
    \/ LogEvent
    \/ WaitISI
    \/ LeaveBlocks
    \/ CloseLog

SpecLegacy == InitLegacy /\ [][NextLegacy]_vars

\* the single-ISI plans run on time, with a sink that may fail at any write
InitFail == InitWith(RunConfigs, MaxLate)

NextFail ==
    \/ Construct
    \/ BeginNerve
    \/ DrawSequence
    \/ AppendNonStim
    \/ ShuffleBlocks
    \/ OpenLog
    \/ BeginRest
    \/ RaiseTrigger
    \/ LowerTrigger
    \/ SinkFailure
    \/ RestSleep
    \/ EndRest
    \/ CheckIn
    \/ StartBlock
    \/ EmitEvent
    \/ LogEvent
    \/ WaitISI
    \/ LeaveBlocks
    \/ CloseLog

SpecFail == InitFail /\ [][NextFail]_vars


-----------------------------------------------------------------------------
(* The generated plan *)

Generated == pc = "constructed"

SeqToSet(s) == {s[i] : i \in 1..Len(s)}

RECURSIVE RunLengths(_, _, _)
\* the lengths of the runs of `events` that end with the code `omis`
RunLengths(events, omis, n) ==
    IF events = <<>> THEN <<>>
    ELSE IF Head(events) = omis
         THEN <<n + 1>> \o RunLengths(Tail(events), omis, 0)
         ELSE RunLengths(Tail(events), omis, n + 1)

NerveBlocks(nerve) == SelectSeq(blocks, LAMBDA b : b.nerve = nerve)

\* the omission positions of all sequences of a nerve, read off the plan
NervePositions(nerve) ==
    Concat([i \in 1..Len(NerveBlocks(nerve)) |->
              RunLengths(NerveBlocks(nerve)[i].events,
                         cfg.trigger_mapping[OmisKey(nerve)], 0)])

\* a run of p events: p - 1 Stim of the nerve, then its Omis
ExpectedRun(nerve, p) ==
    [j \in 1..p |-> IF j < p THEN cfg.trigger_mapping[StimKey(nerve)]
                    ELSE cfg.trigger_mapping[OmisKey(nerve)]]

\* C1: the generated plan has 2*n_blocks*len(ISIs) + n_no_stim_blocks*len(ISIs)
\* blocks, for every valid config and every outcome of the random source.
C1_BlockCount ==
    Generated =>
        Len(blocks) = 2 * cfg.n_blocks * Len(cfg.ISIs) + cfg.n_no_stim_blocks * Len(cfg.ISIs)

\* C2: for each nerve, every configured omission position is the position of
\* floor(k/m) or ceil(k/m) of the nerve's sequences, k = n_sequences*len(ISIs)*n_blocks
\* draws, m = len(omission_positions).
C2_Balance ==
    Generated =>
        \A n \in 1..Len(Nerves) :
            LET chosen == NervePositions(Nerves[n])
                k == NDraws(cfg)
                m == Len(cfg.omission_positions)
            IN  /\ Len(chosen) = k
                /\ \A p \in SeqToSet(cfg.omission_positions) :
                      /\ Count(chosen, p) >= k \div m
                      /\ Count(chosen, p) <= CeilDiv(k, m)

C2_Witness ==
    /\ Generated
    /\ NDraws(cfg) = 3
    /\ cfg.omission_positions = <<2, 3>>
    /\ Count(NervePositions("tibial"), 2) = 2
    /\ Count(NervePositions("tibial"), 3) = 1
    /\ Count(NervePositions("median"), 2) = 2

\* C3: every stimulation block is n_sequences runs of (p - 1) Stim events of its
\* own nerve followed by one Omis event of that nerve, p a configured position;
\* each nerve has n_blocks*len(ISIs)*n_sequences Omis events in the plan.
C3_BlockShape ==
    Generated =>
        \A n \in 1..Len(Nerves) :
            LET nerve == Nerves[n]
                omis == cfg.trigger_mapping[OmisKey(nerve)]
                bs == NerveBlocks(nerve)
            IN  /\ \A i \in 1..Len(bs) :
                      LET ps == RunLengths(bs[i].events, omis, 0)
                      IN  /\ Len(ps) = cfg.n_sequences
                          /\ \A j \in 1..Len(ps) : ps[j] \in SeqToSet(cfg.omission_positions)
                          /\ bs[i].events = Concat([j \in 1..Len(ps) |-> ExpectedRun(nerve, ps[j])])
                /\ Count(Concat([i \in 1..Len(blocks) |-> blocks[i].events]), omis)
                     = cfg.n_blocks * Len(cfg.ISIs) * cfg.n_sequences

C3_Witness ==
    /\ Generated
    /\ cfg.n_sequences >= 2
    /\ \E i \in 1..Len(blocks) :
         /\ blocks[i].nerve = "median"
         /\ RunLengths(blocks[i].events, cfg.trigger_mapping["omis_median"], 0) = <<3, 2>>

\* lines 77-104 when every random.randrange returns 0 and the shuffle keeps the
\* order: the sequences take the pool's positions in the pool's order
FirstDrawPlan(c) ==
    Concat([s \in 1..Len(Nerves) |->
        Concat([i \in 1..Len(c.ISIs) |->
            [b \in 1..c.n_blocks |->
                [ISI |-> c.ISIs[i], nerve |-> Nerves[s],
                 events |-> Concat([q \in 1..c.n_sequences |->
                     SequenceEvents(c.trigger_mapping, Nerves[s],
                         OmissionPool(c)[((i - 1) * c.n_blocks + (b - 1)) * c.n_sequences + q])])]]])])
    \o NonStimBlocks(c)

\* a and b hold the same elements the same number of times
SameBag(a, b) ==
    /\ Len(a) = Len(b)
    /\ \A x \in SeqToSet(a) \cup SeqToSet(b) : Count(a, x) = Count(b, x)

Labels(plan) == [i \in 1..Len(plan) |-> [ISI |-> plan[i].ISI, nerve |-> plan[i].nerve]]

\* C13 (as claimed): whatever the random source does, the plan of a config holds
\* the same blocks (ISI, nerve, exact event list), only their order differs;
\* here against the plan of the outcome in which every draw returns 0.
C13_SameComposition ==
    Generated => SameBag(blocks, FirstDrawPlan(cfg))

\* C13 (amended): the random source chooses the order of the blocks and the
\* omission position of every sequence; what no outcome changes is the multiset
\* of (ISI, nerve) of the blocks, per nerve the multiset of the omission
\* positions of its sequences (the pool), and the non-stimulation blocks.
C13_CompositionUpToDraws ==
    Generated =>
        /\ SameBag(Labels(blocks), Labels(FirstDrawPlan(cfg)))
        /\ \A n \in 1..Len(Nerves) : SameBag(NervePositions(Nerves[n]), OmissionPool(cfg))
        /\ SameBag(NerveBlocks("None"), NonStimBlocks(cfg))

C13_Witness ==
    /\ Generated
    /\ cfg.n_sequences = 2
    /\ cfg.n_blocks = 1
    /\ cfg.omission_positions = <<2, 3>>
    /\ blocks[1].nerve = "None"
    /\ ~SameBag(blocks, FirstDrawPlan(cfg))
    /\ SameBag(Labels(blocks), Labels(FirstDrawPlan(cfg)))

\* C15: every block with nerve None holds only NonStim events, exactly
\* n_no_stim_blocks * n_sequences * floor(mean(omission_positions)) of them,
\* whatever the random source does.
C15_NonStimBlocks ==
    Generated =>
        \A i \in 1..Len(blocks) :
            blocks[i].nerve = "None" =>
                /\ \A j \in 1..Len(blocks[i].events) :
                      blocks[i].events[j] = cfg.trigger_mapping["non_stim"]
                /\ Len(blocks[i].events) =
                      cfg.n_no_stim_blocks * cfg.n_sequences
                        * (SumSeq(cfg.omission_positions) \div Len(cfg.omission_positions))

C15_Witness ==
    /\ Generated
    /\ cfg.omission_positions = <<2, 3>>
    /\ cfg.n_sequences = 2
    /\ cfg.n_no_stim_blocks = 2
    /\ blocks[2].nerve = "None"
    /\ blocks[2].events = <<30, 30, 30, 30, 30, 30, 30, 30>>

-----------------------------------------------------------------------------
(* What run emits and logs *)

IsPrefix(a, b) == Len(a) <= Len(b) /\ a = SubSeq(b, 1, Len(a))

\* the trigger emissions so far: pushes to the stream, writes of a code to the port
Emissions == SelectSeq(io, LAMBDA e : e.op = "push" \/ (e.op = "write" /\ e.value # 0))

EmittedCodes == [i \in 1..Len(Emissions) |-> Emissions[i].value]

\* the emissions of block events (raise_and_lower_trigger called from the event loop)
BlockEmissions == SelectSeq(Emissions, LAMBDA e : e.ctx = "log")

\* the writes to the level-based port
PortWrites == SelectSeq(io, LAMBDA e : e.op = "write")

\* the event rows written to the log, and those that reached the file
Rows == SelectSeq(LogWritten, LAMBDA r : r.kind = "row")
DiskRows == SelectSeq(log_disk, LAMBDA r : r.kind = "row")

PlanCodes == Concat([i \in 1..Len(blocks) |-> blocks[i].events])

RestMarkers == <<cfg.trigger_mapping["rest_start"], cfg.trigger_mapping["rest_end"]>>

CheckIns == Len(SelectSeq(io, LAMBDA e : e.ctx = "check_in"))

\* the event loop of block idx + 1 is running (or its break is just over)
InBlock ==
    \/ pc \in {"block_body", "event", "log", "wait"}
    \/ pc \in {"raise", "hold"} /\ ret = "log"

\* C4: triggers are emitted in the order RestStart, RestEnd, every event of every
\* block in plan order (each once), RestStart, RestEnd, and nothing else.
C4_EmissionOrder ==
    /\ IsPrefix(EmittedCodes, RestMarkers \o PlanCodes \o RestMarkers)
    /\ pc = "done" => EmittedCodes = RestMarkers \o PlanCodes \o RestMarkers

C4_Witness ==
    /\ pc = "done"
    /\ Len(cfg.ISIs) = 2
    /\ blocks[1].nerve = "None"
    /\ Len(EmittedCodes) = 4 + PlanEvents(cfg)

\* C5 (as claimed): every trigger emitted during run, block events and rest
\* markers alike, has exactly one log record, in emission order, and no other
\* record exists.
C5_LogComplete ==
    pc = "done" => [i \in 1..Len(Rows) |-> Rows[i].trigger] = EmittedCodes

\* C5 (amended): the log rows are exactly the emitted block events, in emission
\* order, the row of an event being written right after its emission; the rest
\* markers are emitted and have no row.
C5_LogOfBlockEvents ==
    LET logged == [i \in 1..Len(Rows) |-> Rows[i].trigger]
        sent == [i \in 1..Len(BlockEmissions) |-> BlockEmissions[i].value]
    IN  /\ IsPrefix(logged, sent)
        /\ Len(sent) <= Len(logged) + 1
        /\ pc \notin {"raise", "hold", "log"} => logged = sent
        /\ pc = "done" => /\ logged = PlanCodes
                          /\ Len(Emissions) = Len(Rows) + 4

C5_Witness ==
    /\ pc = "done"
    /\ Len(Rows) = 6
    /\ Len(Emissions) = 10
    /\ [i \in 1..Len(Rows) |-> Rows[i].trigger] = PlanCodes

\* C6: whenever the process is killed during run, the file holds the row of every
\* block event emitted so far, except at most the one in flight.
C6_CrashSafe ==
    log_open => Len(DiskRows) + 1 >= Len(BlockEmissions)

\* C7: on the level-based port every code write is followed, as the very next
\* write and no earlier than trigger_duration later, by a write of 0; writes
\* alternate code, 0, code, 0, ..., and the line is at 0 whenever the program
\* waits for the ISI, sleeps or asks the operator.
C7_AssertDeassert ==
    ~cfg.trigger_lsl =>
        /\ \A i \in 1..Len(PortWrites) :
              IF i % 2 = 1 THEN PortWrites[i].value # 0
              ELSE /\ PortWrites[i].value = 0
                   /\ PortWrites[i].t >= PortWrites[i - 1].t + cfg.trigger_duration
        /\ (Len(PortWrites) % 2 = 1) <=> (pc = "hold")
        /\ \A i \in 1..Len(io) :
              io[i].op = "input" =>
                  Len(SelectSeq(SubSeq(io, 1, i), LAMBDA e : e.op = "write")) % 2 = 0
        /\ \A i \in 1..Len(io) : io[i].op # "push"

C7_Witness ==
    /\ ~cfg.trigger_lsl
    /\ pc = "done"
    /\ cfg.trigger_duration > cfg.ISIs[1]
    /\ CheckIns >= 1
    /\ Len(PortWrites) = 2 * (4 + PlanEvents(cfg))

\* C8: a block event is not emitted before the clock has reached the previous
\* block event's logged timestamp plus the ISI of that event's block; logged
\* timestamps grow by at least that ISI; the final rest starts no earlier than
\* the ISI after the last block event.
C8_Spacing ==
    LET isi(r) == blocks[r.block].ISI
        begins == SelectSeq(io, LAMBDA e : e.ctx = "begin_rest")
    IN  /\ \A j \in 1..(Len(Rows) - 1) :
              Rows[j + 1].timestamp >= Rows[j].timestamp + isi(Rows[j])
        /\ \A n \in 2..Len(BlockEmissions) :
              BlockEmissions[n].t >= Rows[n - 1].timestamp + isi(Rows[n - 1]) + experiment_start
        /\ (Len(begins) = 2 /\ Rows # <<>>) =>
              begins[2].t >= Rows[Len(Rows)].timestamp + isi(Rows[Len(Rows)]) + experiment_start

C8_Witness ==
    /\ pc = "done"
    /\ Len(cfg.ISIs) = 2
    /\ \E j \in 1..(Len(Rows) - 1) :
         /\ Rows[j].block # Rows[j + 1].block
         /\ Rows[j].ISI = 3
         /\ Rows[j + 1].ISI = 2
         /\ Rows[j + 1].timestamp = Rows[j].timestamp + 3

RowsOf(b) == SelectSeq(Rows, LAMBDA r : r.block = b)

\* how late the next timestamp can be on the deadline of one iteration: the hold
\* of the trigger running past the deadline, and the ISI loop overshooting by a tick
IterationLate(ISI) ==
    (IF cfg.trigger_lsl THEN 0 ELSE Max(cfg.trigger_duration - ISI, 0)) + 1

\* the deviation of the i-th row of a block from first timestamp + (i - 1) * ISI
Deviation(r, i, ISI) == r[i].timestamp - (r[1].timestamp + (i - 1) * ISI)

\* C9 (as claimed): with every iteration at most e late on its deadline (here
\* e = 1 tick, the hold of the trigger fitting in the ISI), an event's deviation
\* from the block's schedule stays within e, whatever its index.
C9_NoDrift ==
    \A b \in 1..Len(blocks) :
        IterationLate(blocks[b].ISI) = 1 =>
            \A i \in 1..Len(RowsOf(b)) :
                Deviation(RowsOf(b), i, blocks[b].ISI) <= 1

\* C9 (amended): the deadline of an event is the previous event's own timestamp
\* plus the ISI, so with every iteration at most e late an event's timestamp lies
\* in [previous + ISI, previous + ISI + e], and its deviation from the block's
\* schedule lies in [0, (i - 1) * e]: lateness adds up with the index.
C9_DriftAccumulates ==
    \A b \in 1..Len(blocks) :
        LET r == RowsOf(b)
            D == blocks[b].ISI
        IN  \A i \in 1..Len(r) :
                /\ Deviation(r, i, D) >= 0
                /\ Deviation(r, i, D) <= (i - 1) * IterationLate(D)
                /\ i > 1 => /\ r[i].timestamp >= r[i - 1].timestamp + D
                            /\ r[i].timestamp <= r[i - 1].timestamp + D + IterationLate(D)

C9_Witness ==
    \E b \in 1..Len(blocks) :
        /\ Len(RowsOf(b)) = 3
        /\ IterationLate(blocks[b].ISI) = 1
        /\ Deviation(RowsOf(b), 2, blocks[b].ISI) = 1
        /\ Deviation(RowsOf(b), 3, blocks[b].ISI) = 2

\* C10 (as claimed): a check-in happens between block i and block i + 1 exactly
\* when i mod blocks_between_breaks = 0, never before block 1.
C10_BreakAfterBlock ==
    InBlock =>
        CheckIns = Cardinality({i \in 1..idx : i % cfg.blocks_between_breaks = 0})

\* C10 (amended): a check-in happens immediately before block i (after block
\* i - 1, or after the baseline rest when i = 1) exactly when
\* i mod blocks_between_breaks = 0, and nowhere else.
C10_BreakBeforeBlock ==
    LET started == IF InBlock THEN idx + 1 ELSE idx
    IN  /\ CheckIns = Cardinality({i \in 1..started : i % cfg.blocks_between_breaks = 0})
        /\ pc = "block_body" => (idx + 1) % cfg.blocks_between_breaks = 0

C10_Witness ==
    /\ pc = "event"
    /\ ev = 1
    /\ cfg.blocks_between_breaks = 2
    /\ idx = 1
    /\ CheckIns = 1
    /\ io[Len(io)].ctx = "check_in"


-----------------------------------------------------------------------------
(* The content of the log *)

\* rows written for the blocks before block b
RowsBefore(b) == Len(SelectSeq(Rows, LAMBDA r : r.block < b))

\* C17: once run has opened the log, the file starts with the header and holds
\* nothing of an earlier session; the n-th row of block b (1-based plan position)
\* carries b, the block's ISI and nerve and the code of the block's n-th event;
\* block indices lie in 1..len(plan) and never decrease; a block that is over
\* has as many rows as events.
C17_LogContent ==
    /\ (log_open \/ pc = "done") =>
          /\ LogWritten # <<>>
          /\ LogWritten[1] = HeaderRow
          /\ \A i \in 2..Len(LogWritten) : LogWritten[i].kind = "row"
    /\ \A n \in 1..Len(Rows) :
          LET b == Rows[n].block
          IN  /\ b \in 1..Len(blocks)
              /\ Rows[n].ISI = blocks[b].ISI
              /\ Rows[n].nerve = blocks[b].nerve
              /\ n - RowsBefore(b) \in 1..Len(blocks[b].events)
              /\ Rows[n].trigger = blocks[b].events[n - RowsBefore(b)]
              /\ n > 1 => Rows[n - 1].block <= b
    /\ \A b \in 1..Len(blocks) :
          (b <= idx \/ pc = "done") => Len(RowsOf(b)) = Len(blocks[b].events)

C17_Witness ==
    /\ pc = "done"
    /\ Len(cfg.ISIs) = 2
    /\ log_disk[1] = HeaderRow
    /\ blocks[2].events = <<>>
    /\ Rows[1].block = 1
    /\ Rows[3].block = 3
    /\ Rows[3].ISI = 2
    /\ Rows[Len(Rows)].block = Len(blocks)
    /\ Rows[Len(Rows)].ISI = 3

-----------------------------------------------------------------------------
(* The resting state *)

IsEmission(e) == e.op = "push" \/ (e.op = "write" /\ e.value # 0)

\* the steps of the rest periods so far: confirmations and marker emissions
RestSteps ==
    LET steps == SelectSeq(io, LAMBDA e :
                     \/ e.op = "input" /\ e.ctx \in {"begin_rest", "end_rest"}
                     \/ IsEmission(e) /\ e.ctx \in {"rest_sleep", "end_rest"})
    IN  [i \in 1..Len(steps) |->
           IF steps[i].op = "input" THEN steps[i].ctx
           ELSE IF steps[i].value = cfg.trigger_mapping["rest_start"] /\ steps[i].ctx = "rest_sleep"
                THEN "RestStart" ELSE "RestEnd"]

RestProtocol == <<"begin_rest", "RestStart", "RestEnd", "end_rest">>

Confirmations(prompt, n) ==
    Len(SelectSeq(SubSeq(io, 1, n), LAMBDA e : e.op = "input" /\ e.ctx = prompt))

\* C18: each rest period is: first confirmation, RestStart, RestEnd, second
\* confirmation, in that order; RestEnd is the emission that follows RestStart,
\* no earlier than rest_duration later; the blocks run only between the second
\* confirmation of the first rest and the first confirmation of the final one,
\* and run ends only after the second confirmation of the final rest.
C18_RestProtocol ==
    /\ IsPrefix(RestSteps, RestProtocol \o RestProtocol)
    /\ \A n \in 2..Len(Emissions) :
          Emissions[n].ctx = "end_rest" =>
              /\ Emissions[n - 1].ctx = "rest_sleep"
              /\ Emissions[n].t >= Emissions[n - 1].t + cfg.rest_duration
    /\ \A i \in 1..Len(io) :
          io[i].ctx \in {"log", "check_in"} =>
              /\ Confirmations("end_rest", i) = 1
              /\ Confirmations("begin_rest", i) = 1
    /\ (InBlock \/ pc = "block_head") => RestSteps = RestProtocol
    /\ pc \in {"close", "done"} => RestSteps = RestProtocol \o RestProtocol

C18_Witness ==
    /\ pc = "done"
    /\ RestSteps = RestProtocol \o RestProtocol
    /\ Len(Emissions) >= 6
    /\ Emissions[2].t = Emissions[1].t + cfg.rest_duration
    /\ CheckIns >= 1

-----------------------------------------------------------------------------
(* The streaming sink *)

Pushes(ctx) == SelectSeq(io, LAMBDA e : e.op = "push" /\ e.ctx = ctx)

\* C14: with trigger_LSL every call of raise_and_lower_trigger, for a block
\* event or a rest marker, is exactly one push of its code: one push per row (and
\* one for the event whose row is being written), one per rest marker; nothing is
\* written to the port, no 0 is pushed, the countdown is never started and no
\* time passes inside the call.
C14_StreamingEmit ==
    cfg.trigger_lsl =>
        /\ \A i \in 1..Len(io) : io[i].op \in {"push", "input"}
        /\ \A i \in 1..Len(io) : io[i].op = "push" => io[i].value # 0
        /\ pc # "hold"
        /\ timer_end = 0
        /\ Len(Pushes("log")) = Len(Rows) + (IF pc = "log" THEN 1 ELSE 0)
        /\ \A n \in 1..Len(Rows) :
              /\ Pushes("log")[n].value = Rows[n].trigger
              /\ Pushes("log")[n].t = Rows[n].timestamp + experiment_start
        /\ Len(Pushes("end_rest")) = rests + (IF pc = "end_rest" THEN 1 ELSE 0)
        /\ Len(Pushes("rest_sleep")) =
              rests + (IF pc \in {"rest_sleep", "end_rest"} \/ (pc = "raise" /\ ret = "end_rest")
                       THEN 1 ELSE 0)
        /\ \A n \in 1..Len(Pushes("end_rest")) :
              /\ Pushes("rest_sleep")[n].value = cfg.trigger_mapping["rest_start"]
              /\ Pushes("end_rest")[n].value = cfg.trigger_mapping["rest_end"]
              /\ Pushes("end_rest")[n].t = Pushes("rest_sleep")[n].t + cfg.rest_duration

C14_Witness ==
    /\ cfg.trigger_lsl
    /\ pc = "done"
    /\ CheckIns >= 1
    /\ Len(Pushes("log")) = PlanEvents(cfg)
    /\ Len(Pushes("log")) >= 4
    /\ Len(Pushes("end_rest")) = 2

-----------------------------------------------------------------------------
(* Construction with arguments of any kind *)

\* the constraints on the configuration: at least one ISI, each positive; at
\* least one sequence and one block; at least one omission position, each >= 2
ValidConfig(c) ==
    /\ Len(c.ISIs) > 0
    /\ \A i \in 1..Len(c.ISIs) : c.ISIs[i] > 0
    /\ c.n_sequences > 0
    /\ c.n_blocks > 0
    /\ c.n_no_stim_blocks >= 0
    /\ Len(c.omission_positions) > 0
    /\ \A i \in 1..Len(c.omission_positions) : c.omission_positions[i] >= 2

\* C11: with empty ISIs, empty omission_positions, an omission position < 2,
\* n_sequences <= 0 or n_blocks <= 0, construction fails: setup_experiment never
\* returns a plan and the experiment is never constructed.
C11_InvalidRejected ==
    ~ValidConfig(cfg) => pc \notin {"setup_shuffle", "constructed"}

\* draws of the current nerve made before the one at hand
DrawsMade == ((isi_i - 1) * cfg.n_blocks + (blk_i - 1)) * cfg.n_sequences + (seq_i - 1)

\* C19: when k = n_sequences*len(ISIs)*n_blocks is not a multiple of
\* m = len(omission_positions), setup_experiment still completes, under either
\* interpreter: the pool holds k positions before the nerve's first draw, is not
\* empty at any draw and is empty after the last one.
C19_UnevenPoolSuffices ==
    (ValidConfig(cfg) /\ NDraws(cfg) % Len(cfg.omission_positions) # 0) =>
        /\ pc # "crashed"
        /\ pc = "setup_draw" =>
              /\ Len(omission_positions_tmp) = NDraws(cfg) - DrawsMade
              /\ omission_positions_tmp # <<>>
        /\ pc \in {"setup_nonstim", "setup_shuffle", "constructed"} =>
              omission_positions_tmp = <<>>

\* C20: when construction fails on an invalid config, nothing outside the
\* program has been touched: no outlet of the marker stream exists, nothing was
\* written to a sink, no output directory was made and no log file was opened
\* or changed, with either sink.
C20_FailureBeforeEffects ==
    (pc = "crashed" /\ ~ValidConfig(cfg)) =>
        /\ ~outlet
        /\ io = <<>>
        /\ ~output_dir
        /\ ~log_open
        /\ log_disk = <<StaleRow>>

-----------------------------------------------------------------------------
(* A sink that fails *)

\* positions of io at which a sink call failed
Failures == {i \in 1..Len(io) : io[i].op = "fail"}

\* block events whose emission was over when the sink failed during the call
\* that returns to `ret`
EventsBefore ==
    IF ret = "log"
    THEN Len(Concat([i \in 1..idx |-> blocks[i].events])) + ev - 1
    ELSE IF rests = 0 THEN 0 ELSE Len(PlanCodes)

\* C12: a failing sink write ends run at once: it is the only failure and the
\* last external effect (no retry, no later write, row, check-in or rest), and
\* the log file is closed with nothing left in its buffer, holding the header
\* and exactly the rows of the block events emitted before the failing one.
C12_FatalSinkFailure ==
    /\ Failures # {} <=> pc = "failed"
    /\ Failures \in SUBSET {Len(io)}
    /\ pc = "failed" =>
          /\ ~log_open
          /\ log_buffer = <<>>
          /\ Len(log_disk) = 1 + EventsBefore
          /\ log_disk[1] = HeaderRow
          /\ \A n \in 1..EventsBefore :
                /\ log_disk[n + 1].kind = "row"
                /\ log_disk[n + 1].trigger = PlanCodes[n]
                /\ log_disk[n + 1].trigger = BlockEmissions[n].value

C12_Witness ==
    /\ pc = "failed"
    /\ ret = "log"
    /\ idx >= 1
    /\ ev = 2
    /\ io[Len(io)].value # 0
    /\ Len(log_disk) >= 4
    /\ Len(BlockEmissions) = Len(log_disk) - 1

-----------------------------------------------------------------------------
(* count_event_types *)

\* the kinds of event a plan can hold
PlanKinds == {"stim_tibial", "omis_tibial", "stim_median", "omis_median", "non_stim"}

\* events of a kind that setup_experiment puts into the plan of c
KindCount(c, kind) ==
    IF kind = "non_stim"
    THEN Len(c.ISIs) * c.n_no_stim_blocks * c.n_sequences
           * (SumSeq(c.omission_positions) \div Len(c.omission_positions))
    ELSE IF kind \in {"omis_tibial", "omis_median"} THEN NDraws(c)
    ELSE SumSeq(OmissionPool(c)) - NDraws(c)

\* the count reported under a name, 0 when the name is not reported
Reported(name) ==
    IF name \in DOMAIN event_counts.counts THEN event_counts.counts[name] ELSE 0

\* C16: for every trigger_mapping, also one in which codes coincide,
\* count_event_types reports for each kind the number of events of that kind in
\* the plan; no two kinds are merged under one name.
C16_CountsByKind ==
    (event_counts.called /\ ValidConfig(cfg)) =>
        \A kind \in PlanKinds : Reported(kind) = KindCount(cfg, kind)

-----------------------------------------------------------------------------
(* Stimulations per nerve *)

\* C23: whatever the random source does, the plan holds as many StimTibial as
\* StimMedian events, namely (sum of the k positions of the pool) - k each,
\* k = n_sequences*n_blocks*len(ISIs).
C23_EqualStimulation ==
    Generated =>
        /\ Count(PlanCodes, cfg.trigger_mapping["stim_tibial"])
              = SumSeq(OmissionPool(cfg)) - NDraws(cfg)
        /\ Count(PlanCodes, cfg.trigger_mapping["stim_median"])
              = SumSeq(OmissionPool(cfg)) - NDraws(cfg)
        /\ Count(PlanCodes, cfg.trigger_mapping["stim_tibial"])
              = Count(PlanCodes, cfg.trigger_mapping["stim_median"])

C23_Witness ==
    /\ Generated
    /\ cfg.omission_positions = <<2, 3>>
    /\ NDraws(cfg) = 2
    /\ NervePositions("tibial") = <<2, 3>>
    /\ NervePositions("median") = <<3, 2>>
    /\ Count(PlanCodes, cfg.trigger_mapping["stim_tibial"]) = 3

\* C24: the breaks that calculate_duration charges are the check-ins that run
\* performs over the generated plan.
C24_BreaksAsEstimated ==
    pc = "done" => CheckIns = NBreaks(cfg)

-----------------------------------------------------------------------------
(* Termination *)

\* run is over: two rests done, every block of the plan emitted, the log closed
Done ==
    /\ pc = "done"
    /\ rests = 2
    /\ idx = Len(blocks)
    /\ EmittedCodes = RestMarkers \o PlanCodes \o RestMarkers
    /\ ~log_open
    /\ log_buffer = <<>>

\* C25: with the operator answering, the clock advancing and the sink working,
\* every trigger hold and every inter-event wait is left, and run reaches Done:
\* after exactly two resting-state periods and all blocks, with the log closed.
C25_Terminates ==
    /\ <>Done
    /\ (pc = "hold") ~> (pc # "hold")
    /\ (pc = "wait") ~> (pc # "wait")

C25_Witness ==
    /\ Done
    /\ CheckIns >= 1
    /\ Len(Rows) = PlanEvents(cfg)
    /\ Len(SelectSeq(io, LAMBDA e : e.op = "input")) = 4 + CheckIns

-----------------------------------------------------------------------------
(* The earlier program *)

\* C21: in src/experiment.py the omission positions of a nerve's sequences are
\* taken from a shrinking pool, so no configured position is the position of more
\* than ceil(k/m) of the nerve's k = n_sequences*len(ISIs)*n_blocks sequences.
C21_NoPositionOverused ==
    Generated =>
        \A n \in 1..Len(Nerves) :
            \A p \in SeqToSet(cfg.omission_positions) :
                Count(NervePositions(Nerves[n]), p)
                    <= CeilDiv(NDraws(cfg), Len(cfg.omission_positions))

\* C22: in src/experiment.py every code written to the port, for a block event
\* or a rest marker, is followed by a write of 0 before the next code is written.
C22_DeassertBetweenCodes ==
    \A i \in 1..(Len(PortWrites) - 1) :
        PortWrites[i].value # 0 => PortWrites[i + 1].value = 0

=============================================================================
